---- MODULE Spec2Model ----
(***************************************************************************)
(* A model of zigcli's Build configuration (src/src/build.rs): the setter  *)
(* methods, the resolution of unset fields from the process environment,   *)
(* the assembly of the `zig build` argument vector and the classification  *)
(* of the process launch.                                                  *)
(*                                                                         *)
(* Strings (OsString, String, PathBuf) are sequences of one-character      *)
(* strings; Option<T> is a sequence of length 0 (None) or 1 (Some).        *)
(***************************************************************************)
EXTENDS Integers, Sequences, FiniteSets, TLC

VARIABLES build, environ, status, panic, cmd, ret, calls, builds, launches, env_writes, env_reads,
          translated

\* build: the Build; environ: the environment of the build script; status:
\* "configuring" (the script is between calls), "built" (the last call was
\* Build::build and it returned) or "panicked" (a call panicked: the script
\* is over); panic: the panic raised; cmd: the Command of the last
\* Build::build call, with what cmd.status() returned (None when the call
\* panicked before the launch); ret: the path the last Build::build call
\* returned; calls, builds, launches, env_writes: the setter calls made, the
\* Build::build calls made, the commands launched and the changes made to the
\* environment; env_reads: how often each variable was read from the live
\* environment; translated: the last direct application of
\* translate_arch_feature, with its arguments and its result (None before the
\* first).
vars ==
    <<build, environ, status, panic, cmd, ret, calls, builds, launches, env_writes, env_reads,
      translated>>

\* ---------------------------------------------------------------- bounds
\* Setter calls made on one Build.
MaxCalls == 1
\* Calls of Build::build on one Build.
MaxBuilds == 2
\* Changes the build script makes to its own environment (env::set_var / remove_var).
MaxEnvWrites == 1

\* ---------------------------------------------------------------- Option<T>
None == <<>>
Some(x) == <<x>>
is_none(o) == Len(o) = 0
is_some(o) == Len(o) = 1
unwrap(o) == o[1]
unwrap_or(o, d) == IF is_some(o) THEN o[1] ELSE d

\* ---------------------------------------------------------------- strings
\* A byte that is not valid UTF-8 (an OsString may hold one) and U+FFFD.
BadByte == "\\xFF"
ReplacementChar == "\\uFFFD"

starts_with(s, p) == Len(s) >= Len(p) /\ SubSeq(s, 1, Len(p)) = p

\* OsStr::to_string_lossy, Path::display: invalid bytes become U+FFFD.
to_string_lossy(s) == [i \in DOMAIN s |-> IF s[i] = BadByte THEN ReplacementChar ELSE s[i]]

\* OsStr::to_str / env::var's unicode check.
is_unicode(s) == \A i \in DOMAIN s : s[i] # BadByte

\* str::replace(from, to) for a one-character pattern.
replace(s, from, to) == [i \in DOMAIN s |-> IF s[i] = from THEN to ELSE s[i]]

\* str::split(','): the pieces between separators, empty pieces kept.
RECURSIVE split(_, _)
split(s, sep) ==
    IF \A i \in DOMAIN s : s[i] # sep
    THEN <<s>>
    ELSE LET k == CHOOSE i \in DOMAIN s : s[i] = sep /\ \A j \in 1..(i - 1) : s[j] # sep
         IN  <<SubSeq(s, 1, k - 1)>> \o split(SubSeq(s, k + 1, Len(s)), sep)

\* [String]::join(sep)
RECURSIVE join(_, _)
join(ss, sep) ==
    IF Len(ss) = 0 THEN <<>>
    ELSE IF Len(ss) = 1 THEN ss[1]
    ELSE ss[1] \o sep \o join(Tail(ss), sep)

\* usize::to_string / {} of a usize, for the values the model uses (0..99).
Digit(d) == CASE d = 0 -> "0" [] d = 1 -> "1" [] d = 2 -> "2" [] d = 3 -> "3" [] d = 4 -> "4"
              [] d = 5 -> "5" [] d = 6 -> "6" [] d = 7 -> "7" [] d = 8 -> "8" [] d = 9 -> "9"
to_string(n) == IF n < 10 THEN <<Digit(n)>> ELSE <<Digit(n \div 10), Digit(n % 10)>>

\* ---------------------------------------------------------------- paths
\* Path::is_absolute on Unix.
is_absolute(p) == Len(p) > 0 /\ p[1] = "/"

\* PathBuf::push / Path::join on Unix: an absolute argument replaces the path,
\* otherwise a separator is added unless the path already ends in one.
path_join(base, p) ==
    IF is_absolute(p) THEN p
    ELSE IF Len(base) > 0 /\ base[Len(base)] # "/" THEN base \o <<"/">> \o p
    ELSE base \o p

\* env::current_dir().unwrap()
current_dir == <<"/","w">>

\* ---------------------------------------------------------------- Build
\* Build::new: every optional field unset, every switch off, an empty cache.
new(path) ==
    [ path |-> path_join(current_dir, path),
      step |-> None,
      prefix |-> None, prefix_lib_dir |-> None, prefix_exe_dir |-> None,
      prefix_include_dir |-> None, release |-> None, darling |-> None, qemu |-> None,
      glibc_runtimes |-> None, rosetta |-> None, wasmtime |-> None, wine |-> None,
      verbose |-> FALSE, prominent_compile_errors |-> FALSE, jobs |-> None,
      maxrss |-> None, skip_oom_steps |-> FALSE, incremental |-> None,
      target |-> None, cpu |-> None, dynamic_linker |-> None, optimize |-> None,
      options |-> <<>>,
      reference_trace |-> None, no_reference_trace |-> FALSE, build_file |-> None,
      cache_dir |-> None, global_cache_dir |-> None, zig_lib_dir |-> None,
      build_runner |-> None, seed |-> None, verbose_link |-> FALSE,
      verbose_air |-> FALSE, verbose_llvm_ir |-> None, verbose_llvm_bc |-> None,
      verbose_cimport |-> FALSE, verbose_cc |-> FALSE,
      verbose_llvm_cpu_features |-> FALSE,
      env_cache |-> <<>> ]

\* The setters, as functions of the configuration they are called on.
step(b, s) == [b EXCEPT !.step = Some(s)]
prefix(b, p) == [b EXCEPT !.prefix = Some(path_join(current_dir, p))]
prefix_lib_dir(b, p) == [b EXCEPT !.prefix_lib_dir = Some(path_join(current_dir, p))]
prefix_exe_dir(b, p) == [b EXCEPT !.prefix_exe_dir = Some(path_join(current_dir, p))]
prefix_include_dir(b, p) == [b EXCEPT !.prefix_include_dir = Some(path_join(current_dir, p))]
release(b, r) == [b EXCEPT !.release = Some(r)]
darling(b, e) == [b EXCEPT !.darling = Some(e)]
qemu(b, e) == [b EXCEPT !.qemu = Some(e)]
glibc_runtimes(b, p) == [b EXCEPT !.glibc_runtimes = Some(path_join(current_dir, p))]
rosetta(b, e) == [b EXCEPT !.rosetta = Some(e)]
wasmtime(b, e) == [b EXCEPT !.wasmtime = Some(e)]
wine(b, e) == [b EXCEPT !.wine = Some(e)]
verbose(b) == [b EXCEPT !.verbose = TRUE]
prominent_compile_errors(b) == [b EXCEPT !.prominent_compile_errors = TRUE]
jobs(b, n) == [b EXCEPT !.jobs = Some(n)]
maxrss(b, n) == [b EXCEPT !.maxrss = Some(n)]
skip_oom_steps(b) == [b EXCEPT !.skip_oom_steps = TRUE]
incremental(b, e) == [b EXCEPT !.incremental = Some(e)]
target(b, t) == [b EXCEPT !.target = Some(t)]
cpu(b, c) == [b EXCEPT !.cpu = Some(c)]

\* Build::add_cpu: the first feature becomes the string, later ones are
\* appended after a "+".
add_cpu(b, c) ==
    IF is_none(b.cpu) THEN [b EXCEPT !.cpu = Some(c)]
    ELSE [b EXCEPT !.cpu = Some(unwrap(b.cpu) \o <<"+">> \o c)]

\* Build::remove_cpu: the first feature becomes the string, later ones are
\* appended after a "-".
remove_cpu(b, c) ==
    IF is_none(b.cpu) THEN [b EXCEPT !.cpu = Some(c)]
    ELSE [b EXCEPT !.cpu = Some(unwrap(b.cpu) \o <<"-">> \o c)]

dynamic_linker(b, p) == [b EXCEPT !.dynamic_linker = Some(path_join(current_dir, p))]
optimize(b, o) == [b EXCEPT !.optimize = Some(o)]
reference_trace(b, n) == [b EXCEPT !.reference_trace = Some(n)]
no_reference_trace(b) == [b EXCEPT !.no_reference_trace = TRUE]
build_file(b, p) == [b EXCEPT !.build_file = Some(path_join(current_dir, p))]
cache_dir(b, p) == [b EXCEPT !.cache_dir = Some(path_join(current_dir, p))]
global_cache_dir(b, p) == [b EXCEPT !.global_cache_dir = Some(path_join(current_dir, p))]
zig_lib_dir(b, p) == [b EXCEPT !.zig_lib_dir = Some(path_join(current_dir, p))]
build_runner(b, p) == [b EXCEPT !.build_runner = Some(path_join(current_dir, p))]
seed(b, n) == [b EXCEPT !.seed = Some(n)]
verbose_link(b) == [b EXCEPT !.verbose_link = TRUE]
verbose_air(b) == [b EXCEPT !.verbose_air = TRUE]
verbose_llvm_ir(b, p) == [b EXCEPT !.verbose_llvm_ir = Some(path_join(current_dir, p))]
verbose_llvm_bc(b, p) == [b EXCEPT !.verbose_llvm_bc = Some(path_join(current_dir, p))]
verbose_cimport(b) == [b EXCEPT !.verbose_cimport = TRUE]
verbose_cc(b) == [b EXCEPT !.verbose_cc = TRUE]
verbose_llvm_cpu_features(b) == [b EXCEPT !.verbose_llvm_cpu_features = TRUE]

\* A faulty variant of option_panic: the "-Dtarget" collision is not looked for.
option_panic_no_target(o) ==
    LET option_str == to_string_lossy(o) IN
    IF ~starts_with(option_str, <<"-","D">>) THEN Some("invalid option")
    ELSE IF starts_with(option_str, <<"-","D","c","p","u">>) THEN Some("can not set cpu through an option")
    ELSE IF starts_with(option_str, <<"-","D","d","y","n","a","m","i","c","-","l","i","n","k","e","r">>)
         THEN Some("can not set dynamic-linker through an option")
    ELSE IF starts_with(option_str, <<"-","D","o","p","t","i","m","i","z","e">>) THEN Some("can not set optimize through an option")
    ELSE None

\* A faulty variant of option_panic: the "-Dcpu" collision is not looked for.
option_panic_no_cpu(o) ==
    LET option_str == to_string_lossy(o) IN
    IF ~starts_with(option_str, <<"-","D">>) THEN Some("invalid option")
    ELSE IF starts_with(option_str, <<"-","D","t","a","r","g","e","t">>) THEN Some("can not set target through an option")
    ELSE IF starts_with(option_str, <<"-","D","d","y","n","a","m","i","c","-","l","i","n","k","e","r">>)
         THEN Some("can not set dynamic-linker through an option")
    ELSE IF starts_with(option_str, <<"-","D","o","p","t","i","m","i","z","e">>) THEN Some("can not set optimize through an option")
    ELSE None

\* Build::option's checks on the lossy rendering of the option: the message of
\* the panic it raises, or None when the option is accepted.
option_panic(o) ==
    LET option_str == to_string_lossy(o) IN
    IF ~starts_with(option_str, <<"-","D">>) THEN Some("invalid option")
    ELSE IF starts_with(option_str, <<"-","D","t","a","r","g","e","t">>) THEN Some("can not set target through an option")
    ELSE IF starts_with(option_str, <<"-","D","c","p","u">>) THEN Some("can not set cpu through an option")
    ELSE IF starts_with(option_str, <<"-","D","d","y","n","a","m","i","c","-","l","i","n","k","e","r">>)
         THEN Some("can not set dynamic-linker through an option")
    ELSE IF starts_with(option_str, <<"-","D","o","p","t","i","m","i","z","e">>) THEN Some("can not set optimize through an option")
    ELSE None

\* Build::option on an accepted option: the option itself (not its rendering)
\* is pushed.
option(b, o) == [b EXCEPT !.options = Append(@, o)]

\* Build::options: Build::option on each element in turn, up to and excluding
\* the first one that panics. The result is the configuration at that point
\* and the panic (None when every element was accepted).
RECURSIVE options(_, _)
options(b, os) ==
    IF Len(os) = 0 THEN [b |-> b, panic |-> None]
    ELSE IF is_some(option_panic(Head(os))) THEN [b |-> b, panic |-> option_panic(Head(os))]
    ELSE options(option(b, Head(os)), Tail(os))

\* ---------------------------------------------------------------- environment
EnvNames ==
    { "OUT_DIR", "PROFILE", "OPT_LEVEL", "CARGO_CFG_TARGET_ARCH", "CARGO_CFG_TARGET_OS",
      "CARGO_CFG_TARGET_ENV", "CARGO_CFG_TARGET_ABI", "CARGO_CFG_TARGET_FEATURE", "ZIG" }

\* env::var(v).ok(): the value when the variable is present and valid unicode.
env_var(v) == IF is_some(environ[v]) /\ is_unicode(unwrap(environ[v])) THEN environ[v] ELSE None

\* env::var_os(v): the value when the variable is present.
env_var_os(v) == environ[v]

\* getenv_unwrap: env::var straight from the live environment; None stands
\* for the call of fail(..) on Err.
getenv_unwrap(v) == env_var(v)

\* fail(..): the panic raised inside Build::build.
fail(msg, detail) == Some([site |-> "build", msg |-> msg, detail |-> detail])

\* A faulty variant of getenv_os: the cache is filled and never consulted.
getenv_os_uncached(b, v) ==
    LET r == env_var_os(v) IN
    [ b |-> [b EXCEPT !.env_cache = [x \in (DOMAIN @) \cup {v} |-> IF x = v THEN r ELSE @[x]]],
      val |-> r, live |-> TRUE ]

\* Build::getenv_os: the cached value when the name is in env_cache, else the
\* live value, which is stored. live tells whether the environment was read.
getenv_os(b, v) ==
    IF v \in DOMAIN b.env_cache
    THEN [b |-> b, val |-> b.env_cache[v], live |-> FALSE]
    ELSE LET r == env_var_os(v) IN
         [ b |-> [b EXCEPT !.env_cache = [x \in (DOMAIN @) \cup {v} |-> IF x = v THEN r ELSE @[x]]],
           val |-> r, live |-> TRUE ]

\* Build::zig_executable
zig_executable(b) ==
    LET g == getenv_os(b, "ZIG") IN
    [b |-> g.b, val |-> unwrap_or(g.val, <<"z","i","g">>), live |-> g.live]

\* translate_x86_target_feature
translate_x86_target_feature(feature) ==
    IF feature = <<"a","v","x","5","1","2","v","b","m","i","1">> THEN <<"a","v","x","5","1","2","v","b","m","i">>
    ELSE IF feature = <<"b","m","i","1">> THEN <<"b","m","i">>
    ELSE IF feature = <<"c","m","p","x","c","h","g","1","6","b">> THEN <<"c","x","1","6">>
    ELSE IF feature = <<"r","d","r","a","n","d">> THEN <<"r","d","r","n","d">>
    ELSE IF feature = <<"l","a","h","f","s","a","h","f">> THEN <<"s","a","h","f">>
    ELSE IF feature = <<"p","c","l","m","u","l","q","d","q">> THEN <<"p","c","l","m","u","l">>
    ELSE feature

\* A faulty variant of translate_arch_feature: the x86 table is used for every
\* architecture.
translate_arch_feature_any_arch(arch, feature) ==
    translate_x86_target_feature(replace(replace(feature, "-", "_"), ".", "_"))

\* translate_arch_feature
translate_arch_feature(arch, feature) ==
    LET f == replace(replace(feature, "-", "_"), ".", "_") IN
    IF starts_with(arch, <<"x","8","6">>) THEN translate_x86_target_feature(f) ELSE f

\* A faulty variant of format_triplet: the second "-" is always there.
format_triplet_dash(arch, sys, env, abi) == arch \o <<"-">> \o sys \o <<"-">> \o env \o abi

\* The triplet parse_target_triplet formats from its four variables.
format_triplet(arch, sys, env, abi) ==
    LET envabi == env \o abi IN
    IF Len(envabi) = 0 THEN arch \o <<"-">> \o sys
    ELSE arch \o <<"-">> \o sys \o <<"-">> \o envabi

\* parse_target_triplet: the four variables are read in order; missing names
\* the first that is absent (None when all are there), reads the names read.
parse_target_triplet ==
    LET arch == getenv_unwrap("CARGO_CFG_TARGET_ARCH")
        sys == getenv_unwrap("CARGO_CFG_TARGET_OS")
        env == getenv_unwrap("CARGO_CFG_TARGET_ENV")
        abi == getenv_unwrap("CARGO_CFG_TARGET_ABI")
    IN  IF is_none(arch)
        THEN [missing |-> Some("CARGO_CFG_TARGET_ARCH"), triplet |-> <<>>, arch |-> <<>>,
              reads |-> <<"CARGO_CFG_TARGET_ARCH">>]
        ELSE IF is_none(sys)
        THEN [missing |-> Some("CARGO_CFG_TARGET_OS"), triplet |-> <<>>, arch |-> <<>>,
              reads |-> <<"CARGO_CFG_TARGET_ARCH", "CARGO_CFG_TARGET_OS">>]
        ELSE IF is_none(env)
        THEN [missing |-> Some("CARGO_CFG_TARGET_ENV"), triplet |-> <<>>, arch |-> <<>>,
              reads |-> <<"CARGO_CFG_TARGET_ARCH", "CARGO_CFG_TARGET_OS",
                          "CARGO_CFG_TARGET_ENV">>]
        ELSE IF is_none(abi)
        THEN [missing |-> Some("CARGO_CFG_TARGET_ABI"), triplet |-> <<>>, arch |-> <<>>,
              reads |-> <<"CARGO_CFG_TARGET_ARCH", "CARGO_CFG_TARGET_OS",
                          "CARGO_CFG_TARGET_ENV", "CARGO_CFG_TARGET_ABI">>]
        ELSE [missing |-> None,
              triplet |-> format_triplet(unwrap(arch), unwrap(sys), unwrap(env), unwrap(abi)),
              arch |-> unwrap(arch),
              reads |-> <<"CARGO_CFG_TARGET_ARCH", "CARGO_CFG_TARGET_OS",
                          "CARGO_CFG_TARGET_ENV", "CARGO_CFG_TARGET_ABI">>]

\* ---------------------------------------------------------------- resolution
\* The steps of Build::build thread a record: the configuration so far, the
\* panic raised (None while running) and the names read from the live
\* environment, in order.
missing_env(r, v) ==
    [r EXCEPT !.panic = fail("environment variable not defined", v), !.reads = Append(@, v)]

\* A faulty variant of resolve_prefix: the prefix is derived even when it is set.
resolve_prefix_always(r) ==
    IF is_some(r.panic) THEN r
    ELSE LET out == getenv_unwrap("OUT_DIR") IN
         IF is_none(out) THEN missing_env(r, "OUT_DIR")
         ELSE [r EXCEPT !.b = prefix(@, path_join(unwrap(out), <<"z","i","g","-","o","u","t">>)),
                        !.reads = Append(@, "OUT_DIR")]

\* build.rs 444-449: the prefix defaults to $OUT_DIR/zig-out.
resolve_prefix(r) ==
    IF is_some(r.panic) \/ is_some(r.b.prefix) THEN r
    ELSE LET out == getenv_unwrap("OUT_DIR") IN
         IF is_none(out) THEN missing_env(r, "OUT_DIR")
         ELSE [r EXCEPT !.b = prefix(@, path_join(unwrap(out), <<"z","i","g","-","o","u","t">>)),
                        !.reads = Append(@, "OUT_DIR")]

\* build.rs 453-463: the Optimize the profile stands for.
profile_optimize(profile) == IF profile = <<"d","e","b","u","g">> THEN "Debug" ELSE "Default"

\* A faulty variant of opt_level_optimize: "s" and "z" fall through to the default.
opt_level_optimize_no_small(level, default_opt_level) ==
    IF level = <<"0">> THEN "Debug"
    ELSE IF level \in {<<"1">>, <<"2">>, <<"3">>} THEN "ReleaseSafe"
    ELSE default_opt_level

\* build.rs 465-476: the Optimize the opt-level stands for.
opt_level_optimize(level, default_opt_level) ==
    IF level = <<"0">> THEN "Debug"
    ELSE IF level \in {<<"1">>, <<"2">>, <<"3">>} THEN "ReleaseSafe"
    ELSE IF level \in {<<"s">>, <<"z">>} THEN "ReleaseSmall"
    ELSE default_opt_level

\* A faulty variant of resolve_optimize: release is never set.
resolve_optimize_only(r) ==
    IF is_some(r.panic) \/ ~(is_none(r.b.release) /\ is_none(r.b.optimize)) THEN r
    ELSE LET profile == getenv_unwrap("PROFILE") IN
         IF is_none(profile) THEN missing_env(r, "PROFILE")
         ELSE LET default_opt_level == profile_optimize(unwrap(profile))
                  level == getenv_unwrap("OPT_LEVEL")
                  r1 == [r EXCEPT !.reads = Append(@, "PROFILE")]
              IN  IF is_none(level) THEN missing_env(r1, "OPT_LEVEL")
                  ELSE [r1 EXCEPT !.b = optimize(@, opt_level_optimize(unwrap(level),
                                                                      default_opt_level)),
                                  !.reads = Append(@, "OPT_LEVEL")]

\* build.rs 451-482: release and optimize, when both are unset.
resolve_optimize(r) ==
    IF is_some(r.panic) \/ ~(is_none(r.b.release) /\ is_none(r.b.optimize)) THEN r
    ELSE LET profile == getenv_unwrap("PROFILE") IN
         IF is_none(profile) THEN missing_env(r, "PROFILE")
         ELSE LET default_opt_level == profile_optimize(unwrap(profile))
                  level == getenv_unwrap("OPT_LEVEL")
                  r1 == [r EXCEPT !.reads = Append(@, "PROFILE")]
              IN  IF is_none(level) THEN missing_env(r1, "OPT_LEVEL")
                  ELSE LET opt_level == opt_level_optimize(unwrap(level), default_opt_level)
                           b1 == IF default_opt_level = "Default"
                                 THEN release(r.b, "Auto") ELSE r.b
                       IN  [r1 EXCEPT !.b = optimize(b1, opt_level),
                                      !.reads = Append(@, "OPT_LEVEL")]

\* A faulty variant of cpu_features: the architecture is not among the tokens.
cpu_features_no_arch(arch, list) ==
    LET entries == split(list, ",") IN
    join([i \in DOMAIN entries |-> translate_arch_feature(arch, entries[i])], <<"+">>)

\* build.rs 489-493: the architecture and every entry of the feature list,
\* translated and joined with "+".
cpu_features(arch, list) ==
    LET entries == <<arch>> \o split(list, ",") IN
    join([i \in DOMAIN entries |-> translate_arch_feature(arch, entries[i])], <<"+">>)

\* A faulty variant of resolve_platform: the cpu is inferred whenever it is unset.
resolve_platform_cpu_always(r) ==
    IF is_some(r.panic) THEN r
    ELSE LET t == parse_target_triplet
             r1 == [r EXCEPT !.reads = @ \o t.reads]
         IN  IF is_some(t.missing)
             THEN [r1 EXCEPT !.panic = fail("environment variable not defined", unwrap(t.missing))]
             ELSE LET r2 == IF is_none(r.b.target) THEN [r1 EXCEPT !.b = target(@, t.triplet)]
                            ELSE r1
                      list == getenv_unwrap("CARGO_CFG_TARGET_FEATURE")
                  IN  IF is_some(r.b.cpu) THEN r2
                      ELSE IF is_none(list) THEN missing_env(r2, "CARGO_CFG_TARGET_FEATURE")
                      ELSE [r2 EXCEPT !.b = cpu(@, cpu_features(t.arch, unwrap(list))),
                                      !.reads = Append(@, "CARGO_CFG_TARGET_FEATURE")]

\* build.rs 484-498: target and cpu.
resolve_platform(r) ==
    IF is_some(r.panic) THEN r
    ELSE IF is_none(r.b.target) /\ is_none(r.b.cpu)
    THEN LET t == parse_target_triplet
             r1 == [r EXCEPT !.reads = @ \o t.reads]
         IN  IF is_some(t.missing)
             THEN [r1 EXCEPT !.panic = fail("environment variable not defined", unwrap(t.missing))]
             ELSE LET r2 == [r1 EXCEPT !.b = target(@, t.triplet)]
                      list == getenv_unwrap("CARGO_CFG_TARGET_FEATURE")
                  IN  IF is_none(list) THEN missing_env(r2, "CARGO_CFG_TARGET_FEATURE")
                      ELSE [r2 EXCEPT !.b = cpu(@, cpu_features(t.arch, unwrap(list))),
                                      !.reads = Append(@, "CARGO_CFG_TARGET_FEATURE")]
    ELSE IF is_none(r.b.target)
    THEN LET t == parse_target_triplet
             r1 == [r EXCEPT !.reads = @ \o t.reads]
         IN  IF is_some(t.missing)
             THEN [r1 EXCEPT !.panic = fail("environment variable not defined", unwrap(t.missing))]
             ELSE [r1 EXCEPT !.b = target(@, t.triplet)]
    ELSE r

\* A faulty variant of resolve_cache_dir: without OUT_DIR the cache directory
\* is left unset and the call goes on.
resolve_cache_dir_lenient(r) ==
    IF is_some(r.panic) \/ is_some(r.b.cache_dir) THEN r
    ELSE LET out == getenv_unwrap("OUT_DIR") IN
         IF is_none(out) THEN [r EXCEPT !.reads = Append(@, "OUT_DIR")]
         ELSE [r EXCEPT !.b = cache_dir(@, path_join(unwrap(out), <<".","z","i","g","-","c","a","c","h","e">>)),
                        !.reads = Append(@, "OUT_DIR")]

\* A faulty variant of resolve_cache_dir: the cache directory is derived at every
\* call.
resolve_cache_dir_always(r) ==
    IF is_some(r.panic) THEN r
    ELSE LET out == getenv_unwrap("OUT_DIR") IN
         IF is_none(out) THEN missing_env(r, "OUT_DIR")
         ELSE [r EXCEPT !.b = cache_dir(@, path_join(unwrap(out), <<".","z","i","g","-","c","a","c","h","e">>)),
                        !.reads = Append(@, "OUT_DIR")]

\* build.rs 500-505: the cache directory defaults to $OUT_DIR/.zig-cache.
resolve_cache_dir(r) ==
    IF is_some(r.panic) \/ is_some(r.b.cache_dir) THEN r
    ELSE LET out == getenv_unwrap("OUT_DIR") IN
         IF is_none(out) THEN missing_env(r, "OUT_DIR")
         ELSE [r EXCEPT !.b = cache_dir(@, path_join(unwrap(out), <<".","z","i","g","-","c","a","c","h","e">>)),
                        !.reads = Append(@, "OUT_DIR")]

\* build.rs 443-505: the four defaulting steps in the order of the code.
resolve(b) ==
    resolve_cache_dir(resolve_platform(resolve_optimize(resolve_prefix(
        [b |-> b, panic |-> None, reads |-> <<>>]))))

\* ---------------------------------------------------------------- argument vector
\* if let Some(x) = field { cmd.arg(flag); cmd.arg(x) }
flag_value(flag, field) == IF is_some(field) THEN <<flag, unwrap(field)>> ELSE <<>>

\* if let Some(x) = field { cmd.arg(if x { on } else { off }) }
flag_switch(on, off, field) ==
    IF is_some(field) THEN <<IF unwrap(field) THEN on ELSE off>> ELSE <<>>

\* if field { cmd.arg(flag) }
flag_set(flag, field) == IF field THEN <<flag>> ELSE <<>>

\* if let Some(x) = field { cmd.arg(format!("{flag}{}", x)) }, x already rendered
flag_format(flag, field) == IF is_some(field) THEN <<flag \o unwrap(field)>> ELSE <<>>

\* Option::map
map_lossy(field) == IF is_some(field) THEN Some(to_string_lossy(unwrap(field))) ELSE None
map_to_string(field) == IF is_some(field) THEN Some(to_string(unwrap(field))) ELSE None

\* build.rs 533-546
release_arg(b) ==
    IF is_none(b.release) THEN <<>>
    ELSE IF unwrap(b.release) = "Auto" THEN <<<<"-","-","r","e","l","e","a","s","e">>>>
    ELSE IF unwrap(b.release) = "Fast" THEN <<<<"-","-","r","e","l","e","a","s","e","=","f","a","s","t">>>>
    ELSE IF unwrap(b.release) = "Safe" THEN <<<<"-","-","r","e","l","e","a","s","e","=","s","a","f","e">>>>
    ELSE <<<<"-","-","r","e","l","e","a","s","e","=","s","m","a","l","l">>>>

\* build.rs 614-628
optimize_arg(b) ==
    IF is_none(b.optimize) THEN <<>>
    ELSE IF unwrap(b.optimize) = "Default" THEN <<<<"-","D","o","p","t","i","m","i","z","e">>>>
    ELSE IF unwrap(b.optimize) = "Debug" THEN <<<<"-","D","o","p","t","i","m","i","z","e","=","D","e","b","u","g">>>>
    ELSE IF unwrap(b.optimize) = "ReleaseSafe" THEN <<<<"-","D","o","p","t","i","m","i","z","e","=","R","e","l","e","a","s","e","S","a","f","e">>>>
    ELSE IF unwrap(b.optimize) = "ReleaseFast" THEN <<<<"-","D","o","p","t","i","m","i","z","e","=","R","e","l","e","a","s","e","F","a","s","t">>>>
    ELSE <<<<"-","D","o","p","t","i","m","i","z","e","=","R","e","l","e","a","s","e","S","m","a","l","l">>>>

\* build.rs 509-514: "build" and the step.
selector_args(b) == <<<<"b","u","i","l","d">>>> \o (IF is_some(b.step) THEN <<unwrap(b.step)>> ELSE <<>>)

\* build.rs 516-599: the general options.
general_args(b) ==
    flag_value(<<"-","-","p","r","e","f","i","x">>, b.prefix)
    \o flag_value(<<"-","-","p","r","e","f","i","x","-","l","i","b","-","d","i","r">>, b.prefix_lib_dir)
    \o flag_value(<<"-","-","p","r","e","f","i","x","-","e","x","e","-","d","i","r">>, b.prefix_exe_dir)
    \o flag_value(<<"-","-","p","r","e","f","i","x","-","i","n","c","l","u","d","e","-","d","i","r">>, b.prefix_include_dir)
    \o release_arg(b)
    \o flag_switch(<<"-","f","d","a","r","l","i","n","g">>, <<"-","f","n","o","-","d","a","r","l","i","n","g">>, b.darling)
    \o flag_switch(<<"-","f","q","e","m","u">>, <<"-","f","n","o","-","q","e","m","u">>, b.qemu)
    \o flag_value(<<"-","-","g","l","i","b","c","-","r","u","n","t","i","m","e","s">>, b.glibc_runtimes)
    \o flag_switch(<<"-","f","r","o","s","e","t","t","a">>, <<"-","f","n","o","-","r","o","s","e","t","t","a">>, b.rosetta)
    \o flag_switch(<<"-","f","w","a","s","m","t","i","m","e">>, <<"-","f","n","o","-","w","a","s","m","t","i","m","e">>, b.wasmtime)
    \o flag_switch(<<"-","f","w","i","n","e">>, <<"-","f","n","o","-","w","i","n","e">>, b.wine)
    \o flag_set(<<"-","-","v","e","r","b","o","s","e">>, b.verbose)
    \o flag_set(<<"-","-","p","r","o","m","i","n","e","n","t","-","c","o","m","p","i","l","e","-","e","r","r","o","r","s">>, b.prominent_compile_errors)
    \o flag_format(<<"-","j">>, map_to_string(b.jobs))
    \o flag_value(<<"-","-","m","a","x","r","s","s">>, map_to_string(b.maxrss))
    \o flag_set(<<"-","-","s","k","i","p","-","o","o","m","-","s","t","e","p","s">>, b.skip_oom_steps)
    \o flag_switch(<<"-","f","i","n","c","r","e","m","e","n","t","a","l">>, <<"-","f","n","o","-","i","n","c","r","e","m","e","n","t","a","l">>, b.incremental)

\* build.rs 601-629: the project-specific options, then the free-form ones.
project_args(b) ==
    flag_format(<<"-","D","t","a","r","g","e","t","=">>, map_lossy(b.target))
    \o flag_format(<<"-","D","c","p","u","=">>, map_lossy(b.cpu))
    \o flag_format(<<"-","D","d","y","n","a","m","i","c","-","l","i","n","k","e","r","=">>, map_lossy(b.dynamic_linker))
    \o optimize_arg(b)
    \o b.options

\* build.rs 631-685: the advanced options.
advanced_args(b) ==
    flag_format(<<"-","f","r","e","f","e","r","e","n","c","e","-","t","r","a","c","e","=">>, map_to_string(b.reference_trace))
    \o flag_set(<<"-","f","n","o","-","r","e","f","e","r","e","n","c","e","-","t","r","a","c","e">>, b.no_reference_trace)
    \o flag_value(<<"-","-","b","u","i","l","d","-","f","i","l","e">>, b.build_file)
    \o flag_value(<<"-","-","c","a","c","h","e","-","d","i","r">>, b.cache_dir)
    \o flag_value(<<"-","-","g","l","o","b","a","l","-","c","a","c","h","e","-","d","i","r">>, b.global_cache_dir)
    \o flag_value(<<"-","-","z","i","g","-","l","i","b","-","d","i","r">>, b.zig_lib_dir)
    \o flag_value(<<"-","-","b","u","i","l","d","-","r","u","n","n","e","r">>, b.build_runner)
    \o flag_value(<<"-","-","s","e","e","d">>, map_to_string(b.seed))
    \o flag_set(<<"-","-","v","e","r","b","o","s","e","-","l","i","n","k">>, b.verbose_link)
    \o flag_set(<<"-","-","v","e","r","b","o","s","e","-","a","i","r">>, b.verbose_air)
    \o flag_format(<<"-","-","v","e","r","b","o","s","e","-","l","l","v","m","-","i","r","=">>, map_lossy(b.verbose_llvm_ir))
    \o flag_format(<<"-","-","v","e","r","b","o","s","e","-","l","l","v","m","-","b","c","=">>, map_lossy(b.verbose_llvm_bc))
    \o flag_set(<<"-","-","v","e","r","b","o","s","e","-","c","i","m","p","o","r","t">>, b.verbose_cimport)
    \o flag_set(<<"-","-","v","e","r","b","o","s","e","-","c","c">>, b.verbose_cc)
    \o flag_set(<<"-","-","v","e","r","b","o","s","e","-","l","l","v","m","-","c","p","u","-","f","e","a","t","u","r","e","s">>, b.verbose_llvm_cpu_features)

\* A faulty variant of cmd_args: the advanced options are given before the project options.
cmd_args_advanced_first(b) ==
    selector_args(b) \o general_args(b) \o advanced_args(b) \o project_args(b)

\* build.rs 507-685: the arguments given to the Command, in the order given.
cmd_args(b) == selector_args(b) \o general_args(b) \o project_args(b) \o advanced_args(b)

\* ---------------------------------------------------------------- launch
\* What cmd.status() can return: an io::Error of some kind, or the exit status
\* of the tool (code -1 stands for "no exit status").
Err(kind) == [ok |-> FALSE, kind |-> kind, code |-> -1]
Exited(code) == [ok |-> TRUE, kind |-> "", code |-> code]
LaunchOutcomes == {Err("NotFound"), Err("PermissionDenied"), Exited(0), Exited(1)}

\* The machine cmd.status() runs on: whether the zig executable can be found,
\* whether the working directory given to cmd.current_dir is there, and what
\* cmd.status() returns then. The launch fails with an io::Error of kind
\* NotFound when either is missing.
World(zig_found, dir_found, outcome) ==
    [zig_found |-> zig_found, dir_found |-> dir_found, status |-> outcome]
LaunchWorlds ==
    {World(FALSE, TRUE, Err("NotFound")), World(TRUE, FALSE, Err("NotFound"))}
    \cup {World(TRUE, TRUE, o) : o \in LaunchOutcomes \ {Err("NotFound")}}

\* A faulty variant of classify: every launch error gets the general message.
classify_any_error(outcome) ==
    IF ~outcome.ok THEN fail("failed to execute command", outcome.kind)
    ELSE IF outcome.code # 0
    THEN fail("command did not execute successfully", "exit status")
    ELSE None

\* build.rs 688-703: the panic the outcome of cmd.status() leads to, None on
\* success.
classify(outcome) ==
    IF ~outcome.ok /\ outcome.kind = "NotFound"
    THEN fail("failed to execute command; is zig not installed?", outcome.kind)
    ELSE IF ~outcome.ok THEN fail("failed to execute command", outcome.kind)
    ELSE IF outcome.code # 0
    THEN fail("command did not execute successfully", "exit status")
    ELSE None

\* ---------------------------------------------------------------- inputs
ProjectPath == <<"l","i","b","f","o","o">>
\* The step is any string: "test", and one that reads like a project option.
StepArgs == {<<"t","e","s","t">>, <<"-","D","c","p","u","=","n","a","t","i","v","e">>}
PathArgs == {<<"l","i","b">>, <<"/","o","p","t">>}
UsizeArgs == {4}
ReleaseModes == {"Auto", "Fast", "Safe", "Small"}
Optimizes == {"Default", "Debug", "ReleaseSafe", "ReleaseFast", "ReleaseSmall"}
TargetArgs == {<<"a","a","r","c","h","6","4","-","l","i","n","u","x","-","g","n","u">>, <<"r", "v", BadByte>>}
CpuArgs == {<<"b","a","s","e","l","i","n","e">>}
FeatureArgs == {<<"a","v","x">>, <<"s","s","e">>}
GoodOptions == {<<"-","D","f","o","o","=","b","a","r">>, <<"-","D","x">>}
BadOptions ==
    { <<"f","o","o">>, <<"-","D","t","a","r","g","e","t","=","x">>, <<"-","D","c","p","u","_","c","o","u","n","t","=","4">>, <<"-","D","d","y","n","a","m","i","c","-","l","i","n","k","e","r","=","/","l">>,
      <<"-","D","o","p","t","i","m","i","z","e","=","D","e","b","u","g">> }
OptionArgs == GoodOptions \cup BadOptions
OptionLists ==
    { <<>>, <<<<"-","D","f","o","o","=","b","a","r">>, <<"-","D","x">>>>, <<<<"-","D","x">>, <<"f","o","o">>>>, <<<<"-","D","c","p","u","=","x">>, <<"-","D","x">>>> }

\* The environment cargo gives a build script for x86_64-unknown-linux-gnu.
CargoEnv ==
    [ v \in EnvNames |->
        CASE v = "OUT_DIR" -> Some(<<"/","o","u","t">>)
          [] v = "PROFILE" -> Some(<<"r","e","l","e","a","s","e">>)
          [] v = "OPT_LEVEL" -> Some(<<"3">>)
          [] v = "CARGO_CFG_TARGET_ARCH" -> Some(<<"x","8","6","_","6","4">>)
          [] v = "CARGO_CFG_TARGET_OS" -> Some(<<"l","i","n","u","x">>)
          [] v = "CARGO_CFG_TARGET_ENV" -> Some(<<"g","n","u">>)
          [] v = "CARGO_CFG_TARGET_ABI" -> Some(<<>>)
          [] v = "CARGO_CFG_TARGET_FEATURE" -> Some(<<"s","s","e","4",".","2",",","b","m","i","1">>)
          [] v = "ZIG" -> None ]

\* The values each variable takes in the model (None: the variable is absent).
EnvValues(v) ==
    CASE v = "OUT_DIR" -> {None, Some(<<"/","o","u","t">>), Some(<<"o","u","t">>), Some(<<"/", "o", BadByte>>)}
      [] v = "PROFILE" ->
            {None, Some(<<"d","e","b","u","g">>), Some(<<"r","e","l","e","a","s","e">>), Some(<<"b","e","n","c","h">>), Some(<<"c","u","s","t","o","m">>)}
      [] v = "OPT_LEVEL" ->
            {None, Some(<<"0">>), Some(<<"1">>), Some(<<"2">>), Some(<<"3">>), Some(<<"s">>),
             Some(<<"z">>), Some(<<"f","a","s","t">>)}
      [] v = "CARGO_CFG_TARGET_ARCH" -> {None, Some(<<"x","8","6","_","6","4">>), Some(<<"a","r","m">>)}
      [] v = "CARGO_CFG_TARGET_OS" -> {None, Some(<<"l","i","n","u","x">>)}
      [] v = "CARGO_CFG_TARGET_ENV" -> {None, Some(<<>>), Some(<<"g","n","u">>)}
      [] v = "CARGO_CFG_TARGET_ABI" -> {None, Some(<<>>), Some(<<"e","a","b","i","h","f">>)}
      [] v = "CARGO_CFG_TARGET_FEATURE" ->
            {None, Some(<<>>), Some(<<"s","s","e","4",".","2",",","b","m","i","1">>), Some(<<"b","m","i","1",",","v","8",".","1","-","a",",","b","m","i","1">>)}
      [] v = "ZIG" -> {None, Some(<<"/","o","p","t","/","z","i","g">>), Some(<<"z","i","g","1","3">>)}

\* CargoEnv with the variables of over replaced.
EnvWith(over) == [v \in EnvNames |-> IF v \in DOMAIN over THEN over[v] ELSE CargoEnv[v]]

\* The values a variable that is present takes in the model.
Present(v) == EnvValues(v) \ {None}

\* The environments of the model: CargoEnv with one variable changed or
\* removed, or with the variables one step of the resolution reads together
\* set to any of their values.
Environments ==
    UNION { { EnvWith(v :> a) : a \in EnvValues(v) } : v \in EnvNames }
    \cup { EnvWith("PROFILE" :> p @@ "OPT_LEVEL" :> o) :
             p \in Present("PROFILE"), o \in Present("OPT_LEVEL") }
    \cup { EnvWith("CARGO_CFG_TARGET_ARCH" :> a @@ "CARGO_CFG_TARGET_ENV" :> e
                   @@ "CARGO_CFG_TARGET_ABI" :> i) :
             a \in Present("CARGO_CFG_TARGET_ARCH"), e \in Present("CARGO_CFG_TARGET_ENV"),
             i \in Present("CARGO_CFG_TARGET_ABI") }
    \cup { EnvWith("CARGO_CFG_TARGET_ARCH" :> a @@ "CARGO_CFG_TARGET_FEATURE" :> f) :
             a \in Present("CARGO_CFG_TARGET_ARCH"),
             f \in Present("CARGO_CFG_TARGET_FEATURE") }

\* ---------------------------------------------------------------- actions
\* A setter that returns: the configuration changes, nothing else does.
Call(b) ==
    /\ status # "panicked"
    /\ calls < MaxCalls
    /\ build' = b
    /\ calls' = calls + 1
    /\ status' = "configuring"
    /\ UNCHANGED <<environ, panic, cmd, ret, builds, launches, env_writes, env_reads, translated>>

\* A setter that panics with the configuration as b.
Panic(b, site, msg) ==
    /\ status # "panicked"
    /\ calls < MaxCalls
    /\ build' = b
    /\ calls' = calls + 1
    /\ status' = "panicked"
    /\ panic' = Some([site |-> site, msg |-> msg, detail |-> ""])
    /\ UNCHANGED <<environ, cmd, ret, builds, launches, env_writes, env_reads, translated>>

Call_step(s) == Call(step(build, s))
Call_prefix(p) == Call(prefix(build, p))
Call_prefix_lib_dir(p) == Call(prefix_lib_dir(build, p))
Call_prefix_exe_dir(p) == Call(prefix_exe_dir(build, p))
Call_prefix_include_dir(p) == Call(prefix_include_dir(build, p))
Call_release(r) == Call(release(build, r))
Call_darling(e) == Call(darling(build, e))
Call_qemu(e) == Call(qemu(build, e))
Call_glibc_runtimes(p) == Call(glibc_runtimes(build, p))
Call_rosetta(e) == Call(rosetta(build, e))
Call_wasmtime(e) == Call(wasmtime(build, e))
Call_wine(e) == Call(wine(build, e))
Call_verbose == Call(verbose(build))
Call_prominent_compile_errors == Call(prominent_compile_errors(build))
Call_jobs(n) == Call(jobs(build, n))
Call_maxrss(n) == Call(maxrss(build, n))
Call_skip_oom_steps == Call(skip_oom_steps(build))
Call_incremental(e) == Call(incremental(build, e))
Call_target(t) == Call(target(build, t))
Call_cpu(c) == Call(cpu(build, c))
Call_add_cpu(c) == Call(add_cpu(build, c))
Call_remove_cpu(c) == Call(remove_cpu(build, c))
Call_dynamic_linker(p) == Call(dynamic_linker(build, p))
Call_optimize(o) == Call(optimize(build, o))
Call_reference_trace(n) == Call(reference_trace(build, n))
Call_no_reference_trace == Call(no_reference_trace(build))
Call_build_file(p) == Call(build_file(build, p))
Call_cache_dir(p) == Call(cache_dir(build, p))
Call_global_cache_dir(p) == Call(global_cache_dir(build, p))
Call_zig_lib_dir(p) == Call(zig_lib_dir(build, p))
Call_build_runner(p) == Call(build_runner(build, p))
Call_seed(n) == Call(seed(build, n))
Call_verbose_link == Call(verbose_link(build))
Call_verbose_air == Call(verbose_air(build))
Call_verbose_llvm_ir(p) == Call(verbose_llvm_ir(build, p))
Call_verbose_llvm_bc(p) == Call(verbose_llvm_bc(build, p))
Call_verbose_cimport == Call(verbose_cimport(build))
Call_verbose_cc == Call(verbose_cc(build))
Call_verbose_llvm_cpu_features == Call(verbose_llvm_cpu_features(build))

\* Build::option: the panic of its checks, or the push.
Call_option(o) ==
    IF is_some(option_panic(o))
    THEN Panic(build, "option", unwrap(option_panic(o)))
    ELSE Call(option(build, o))

\* Build::options: the whole loop.
Call_options(os) ==
    LET r == options(build, os) IN
    IF is_some(r.panic) THEN Panic(r.b, "options", unwrap(r.panic)) ELSE Call(r.b)

\* The number of times v occurs in the sequence of names reads.
count(reads, v) == Cardinality({i \in DOMAIN reads : reads[i] = v})

\* Build::build: the resolution, then (unless it panicked) the launch of the
\* command and the classification of what cmd.status() returned.
Call_build ==
    /\ status # "panicked"
    /\ builds < MaxBuilds
    /\ builds' = builds + 1
    /\ \E r \in {resolve(build)} :
       IF is_some(r.panic)
       THEN /\ build' = r.b
            /\ status' = "panicked"
            /\ panic' = r.panic
            /\ cmd' = None
            /\ ret' = None
            /\ launches' = launches
            /\ env_reads' = [v \in EnvNames |-> env_reads[v] + count(r.reads, v)]
       ELSE \E z \in {zig_executable(r.b)} :
            \E args \in {cmd_args(z.b)} :
            \E w \in LaunchWorlds :
            \E outcome \in {w.status} :
                /\ build' = z.b
                /\ cmd' = Some([program |-> z.val, current_dir |-> z.b.path,
                                args |-> args, status |-> outcome,
                                zig_found |-> w.zig_found, dir_found |-> w.dir_found])
                /\ panic' = classify(outcome)
                /\ status' = IF is_some(classify(outcome)) THEN "panicked" ELSE "built"
                /\ ret' = IF is_some(classify(outcome)) THEN None ELSE z.b.prefix
                /\ launches' = launches + 1
                /\ env_reads' =
                       [v \in EnvNames |->
                           env_reads[v] + count(r.reads, v)
                           + (IF v = "ZIG" /\ z.live THEN 1 ELSE 0)]
    /\ UNCHANGED <<environ, calls, env_writes, translated>>

\* The build script changes its own environment between two calls
\* (env::set_var, env::remove_var).
set_var(v, val) ==
    /\ status # "panicked"
    /\ env_writes < MaxEnvWrites
    /\ environ[v] # val
    /\ environ' = [environ EXCEPT ![v] = val]
    /\ env_writes' = env_writes + 1
    /\ status' = "configuring"
    /\ UNCHANGED <<build, panic, cmd, ret, calls, builds, launches, env_reads, translated>>

\* translate_arch_feature applied to an architecture and a feature name.
Call_translate_arch_feature(arch, feature) ==
    /\ translated' = Some([arch |-> arch, feature |-> feature,
                           result |-> translate_arch_feature(arch, feature)])
    /\ UNCHANGED <<build, environ, status, panic, cmd, ret, calls, builds, launches,
                   env_writes, env_reads>>

\* ---------------------------------------------------------------- specifications
InitWith(envs) ==
    /\ build = new(ProjectPath)
    /\ environ \in envs
    /\ status = "configuring"
    /\ panic = None
    /\ cmd = None
    /\ ret = None
    /\ calls = 0
    /\ builds = 0
    /\ launches = 0
    /\ env_writes = 0
    /\ env_reads = [v \in EnvNames |-> 0]
    /\ translated = None

\* The setters of the fields the resolution looks at.
ResolutionSetters ==
    \/ \E p \in PathArgs : Call_prefix(p)
    \/ \E r \in ReleaseModes : Call_release(r)
    \/ \E o \in Optimizes : Call_optimize(o)
    \/ \E t \in TargetArgs : Call_target(t)
    \/ \E c \in CpuArgs : Call_cpu(c)
    \/ \E p \in PathArgs : Call_cache_dir(p)

\* The other setters.
OtherSetters ==
    \/ \E s \in StepArgs : Call_step(s)
    \/ \E p \in PathArgs : Call_prefix_lib_dir(p)
    \/ \E p \in PathArgs : Call_prefix_exe_dir(p)
    \/ \E p \in PathArgs : Call_prefix_include_dir(p)
    \/ \E e \in BOOLEAN : Call_darling(e)
    \/ \E e \in BOOLEAN : Call_qemu(e)
    \/ \E p \in PathArgs : Call_glibc_runtimes(p)
    \/ \E e \in BOOLEAN : Call_rosetta(e)
    \/ \E e \in BOOLEAN : Call_wasmtime(e)
    \/ \E e \in BOOLEAN : Call_wine(e)
    \/ Call_verbose
    \/ Call_prominent_compile_errors
    \/ \E n \in UsizeArgs : Call_jobs(n)
    \/ \E n \in UsizeArgs : Call_maxrss(n)
    \/ Call_skip_oom_steps
    \/ \E e \in BOOLEAN : Call_incremental(e)
    \/ \E c \in FeatureArgs : Call_add_cpu(c)
    \/ \E c \in FeatureArgs : Call_remove_cpu(c)
    \/ \E p \in PathArgs : Call_dynamic_linker(p)
    \/ \E o \in OptionArgs : Call_option(o)
    \/ \E os \in OptionLists : Call_options(os)
    \/ \E n \in UsizeArgs : Call_reference_trace(n)
    \/ Call_no_reference_trace
    \/ \E p \in PathArgs : Call_build_file(p)
    \/ \E p \in PathArgs : Call_global_cache_dir(p)
    \/ \E p \in PathArgs : Call_zig_lib_dir(p)
    \/ \E p \in PathArgs : Call_build_runner(p)
    \/ \E n \in UsizeArgs : Call_seed(n)
    \/ Call_verbose_link
    \/ Call_verbose_air
    \/ \E p \in PathArgs : Call_verbose_llvm_ir(p)
    \/ \E p \in PathArgs : Call_verbose_llvm_bc(p)
    \/ Call_verbose_cimport
    \/ Call_verbose_cc
    \/ Call_verbose_llvm_cpu_features

\* Every method of Build, in cargo's environment.
Init == InitWith({CargoEnv})
Next == ResolutionSetters \/ OtherSetters \/ Call_build
Spec == Init /\ [][Next]_vars

\* The methods the resolution depends on, in every environment of the model.
InitResolve == InitWith(Environments)
NextResolve == ResolutionSetters \/ Call_build
SpecResolve == InitResolve /\ [][NextResolve]_vars

\* Build::build in an environment the build script changes.
InitEnv == InitWith({CargoEnv})
NextEnv == (\E v \in EnvNames : \E val \in EnvValues(v) : set_var(v, val)) \/ Call_build
SpecEnv == InitEnv /\ [][NextEnv]_vars

\* The architectures and feature names translate_arch_feature is applied to:
\* x86 and other architectures (one a proper prefix of "x86"), the names of
\* the x86 table and their renamings, names with "-" and ".", and others.
ArchArgs ==
    {<<"x","8","6","_","6","4">>, <<"x","8","6">>, <<"x","8">>, <<"a","a","r","c","h","6","4">>, <<"a","r","m">>, <<"r","i","s","c","v","6","4">>, <<"w","a","s","m","3","2">>, <<>>}
TableNames ==
    {<<"a","v","x","5","1","2","v","b","m","i","1">>, <<"b","m","i","1">>, <<"c","m","p","x","c","h","g","1","6","b">>, <<"r","d","r","a","n","d">>, <<"l","a","h","f","s","a","h","f">>, <<"p","c","l","m","u","l","q","d","q">>}
FeatureNames ==
    TableNames
    \cup {<<"a","v","x","5","1","2","v","b","m","i">>, <<"b","m","i">>, <<"c","x","1","6">>, <<"r","d","r","n","d">>, <<"s","a","h","f">>, <<"p","c","l","m","u","l">>}
    \cup {<<"s","s","e","4",".","2">>, <<"v","8",".","1","-","a">>, <<"c","r","t","-","s","t","a","t","i","c">>, <<"b","m","i","-","1">>, <<"b","m","i",".","1">>, <<"-">>, <<".","-">>}
    \cup {<<"a","v","x">>, <<"n","e","o","n">>, <<"x","8","6","_","6","4">>, <<"b","m","i","2">>, <<"a","_","b">>, <<>>}

\* translate_arch_feature on its own, on every architecture and feature name
\* of the model.
InitTranslate == InitWith({CargoEnv})
NextTranslate ==
    \E arch \in ArchArgs : \E feature \in FeatureNames : Call_translate_arch_feature(arch, feature)
SpecTranslate == InitTranslate /\ [][NextTranslate]_vars

\* ---------------------------------------------------------------- claims
\* The last call was Build::build and it launched the command (it returned, or
\* it panicked on what cmd.status() returned).
Launched ==
    /\ is_some(cmd)
    /\ \/ status = "built"
       \/ status = "panicked" /\ unwrap(panic).site = "build"

\* The order section 4.4 declares: one entry per flag, with the field that
\* decides it. kind tells how the flag shows in the vector: "pair" (the flag,
\* then its value as the next token), "exact" (a bare flag of a boolean
\* field), "switch" (the flag or its negation), "fmt" (the flag with the value
\* in the same token), "opt" (the bare flag, or flag=value), "free" (a
\* free-form -D option).
Entry(lit, alt, kind, field) == [lit |-> lit, alt |-> alt, kind |-> kind, field |-> field]
DeclaredOrder ==
    << Entry(<<"-","-","p","r","e","f","i","x">>, <<>>, "pair", "prefix"),
       Entry(<<"-","-","p","r","e","f","i","x","-","l","i","b","-","d","i","r">>, <<>>, "pair", "prefix_lib_dir"),
       Entry(<<"-","-","p","r","e","f","i","x","-","e","x","e","-","d","i","r">>, <<>>, "pair", "prefix_exe_dir"),
       Entry(<<"-","-","p","r","e","f","i","x","-","i","n","c","l","u","d","e","-","d","i","r">>, <<>>, "pair", "prefix_include_dir"),
       Entry(<<"-","-","r","e","l","e","a","s","e">>, <<>>, "opt", "release"),
       Entry(<<"-","f","d","a","r","l","i","n","g">>, <<"-","f","n","o","-","d","a","r","l","i","n","g">>, "switch", "darling"),
       Entry(<<"-","f","q","e","m","u">>, <<"-","f","n","o","-","q","e","m","u">>, "switch", "qemu"),
       Entry(<<"-","-","g","l","i","b","c","-","r","u","n","t","i","m","e","s">>, <<>>, "pair", "glibc_runtimes"),
       Entry(<<"-","f","r","o","s","e","t","t","a">>, <<"-","f","n","o","-","r","o","s","e","t","t","a">>, "switch", "rosetta"),
       Entry(<<"-","f","w","a","s","m","t","i","m","e">>, <<"-","f","n","o","-","w","a","s","m","t","i","m","e">>, "switch", "wasmtime"),
       Entry(<<"-","f","w","i","n","e">>, <<"-","f","n","o","-","w","i","n","e">>, "switch", "wine"),
       Entry(<<"-","-","v","e","r","b","o","s","e">>, <<>>, "exact", "verbose"),
       Entry(<<"-","-","p","r","o","m","i","n","e","n","t","-","c","o","m","p","i","l","e","-","e","r","r","o","r","s">>, <<>>, "exact", "prominent_compile_errors"),
       Entry(<<"-","j">>, <<>>, "fmt", "jobs"),
       Entry(<<"-","-","m","a","x","r","s","s">>, <<>>, "pair", "maxrss"),
       Entry(<<"-","-","s","k","i","p","-","o","o","m","-","s","t","e","p","s">>, <<>>, "exact", "skip_oom_steps"),
       Entry(<<"-","f","i","n","c","r","e","m","e","n","t","a","l">>, <<"-","f","n","o","-","i","n","c","r","e","m","e","n","t","a","l">>, "switch", "incremental"),
       Entry(<<"-","D","t","a","r","g","e","t","=">>, <<>>, "fmt", "target"),
       Entry(<<"-","D","c","p","u","=">>, <<>>, "fmt", "cpu"),
       Entry(<<"-","D","d","y","n","a","m","i","c","-","l","i","n","k","e","r","=">>, <<>>, "fmt", "dynamic_linker"),
       Entry(<<"-","D","o","p","t","i","m","i","z","e">>, <<>>, "opt", "optimize"),
       Entry(<<"-","D">>, <<>>, "free", "options"),
       Entry(<<"-","f","r","e","f","e","r","e","n","c","e","-","t","r","a","c","e","=">>, <<>>, "fmt", "reference_trace"),
       Entry(<<"-","f","n","o","-","r","e","f","e","r","e","n","c","e","-","t","r","a","c","e">>, <<>>, "exact", "no_reference_trace"),
       Entry(<<"-","-","b","u","i","l","d","-","f","i","l","e">>, <<>>, "pair", "build_file"),
       Entry(<<"-","-","c","a","c","h","e","-","d","i","r">>, <<>>, "pair", "cache_dir"),
       Entry(<<"-","-","g","l","o","b","a","l","-","c","a","c","h","e","-","d","i","r">>, <<>>, "pair", "global_cache_dir"),
       Entry(<<"-","-","z","i","g","-","l","i","b","-","d","i","r">>, <<>>, "pair", "zig_lib_dir"),
       Entry(<<"-","-","b","u","i","l","d","-","r","u","n","n","e","r">>, <<>>, "pair", "build_runner"),
       Entry(<<"-","-","s","e","e","d">>, <<>>, "pair", "seed"),
       Entry(<<"-","-","v","e","r","b","o","s","e","-","l","i","n","k">>, <<>>, "exact", "verbose_link"),
       Entry(<<"-","-","v","e","r","b","o","s","e","-","a","i","r">>, <<>>, "exact", "verbose_air"),
       Entry(<<"-","-","v","e","r","b","o","s","e","-","l","l","v","m","-","i","r","=">>, <<>>, "fmt", "verbose_llvm_ir"),
       Entry(<<"-","-","v","e","r","b","o","s","e","-","l","l","v","m","-","b","c","=">>, <<>>, "fmt", "verbose_llvm_bc"),
       Entry(<<"-","-","v","e","r","b","o","s","e","-","c","i","m","p","o","r","t">>, <<>>, "exact", "verbose_cimport"),
       Entry(<<"-","-","v","e","r","b","o","s","e","-","c","c">>, <<>>, "exact", "verbose_cc"),
       Entry(<<"-","-","v","e","r","b","o","s","e","-","l","l","v","m","-","c","p","u","-","f","e","a","t","u","r","e","s">>, <<>>, "exact", "verbose_llvm_cpu_features") >>

\* The token is the flag of the entry e of a field with a setter of its own.
IsFieldFlag(tok, e) ==
    CASE e.kind \in {"pair", "exact"} -> tok = e.lit
      [] e.kind = "switch" -> tok = e.lit \/ tok = e.alt
      [] e.kind = "fmt" -> starts_with(tok, e.lit)
      [] e.kind = "opt" -> tok = e.lit \/ starts_with(tok, e.lit \o <<"=">>)
      [] OTHER -> FALSE

\* The token is the flag of entry e: a free-form option is a -D token that is
\* the flag of no field.
IsFlagOf(tok, e) ==
    IF e.kind = "free"
    THEN /\ starts_with(tok, e.lit)
         /\ \A k \in DOMAIN DeclaredOrder : ~IsFieldFlag(tok, DeclaredOrder[k])
    ELSE IsFieldFlag(tok, e)

FreeRank == CHOOSE k \in DOMAIN DeclaredOrder : DeclaredOrder[k].kind = "free"

\* The entry whose flag the token is, 0 when it is the flag of none.
EntryOf(tok) ==
    IF \E k \in DOMAIN DeclaredOrder : IsFlagOf(tok, DeclaredOrder[k])
    THEN CHOOSE k \in DOMAIN DeclaredOrder : IsFlagOf(tok, DeclaredOrder[k])
    ELSE 0

\* The entries of the tokens of the vector a of configuration b. The step,
\* when set, is the second token whatever it looks like: it is the flag of no
\* entry.
Entries(a, b) ==
    [i \in DOMAIN a |-> IF i = 2 /\ is_some(b.step) THEN 0 ELSE EntryOf(a[i])]

\* The tokens of the vector a of configuration b after "build" and the step.
AfterStep(a, b) == SubSeq(a, IF is_some(b.step) THEN 3 ELSE 2, Len(a))

\* Token i of the vector a is the value of the "pair" flag before it.
IsValue(a, e, i) ==
    /\ i > 1
    /\ e[i - 1] # 0
    /\ DeclaredOrder[e[i - 1]].kind = "pair"
    /\ (i = 2 \/ e[i - 2] = 0 \/ DeclaredOrder[e[i - 2]].kind # "pair")

\* The place of token i of the vector a (with entries e) in the declared
\* order: 0 for "build" in front, 1 for the step after it, 1 + k for the flag
\* of entry k and for the value that follows a "pair" flag, -1 for a token
\* that has no place.
Place(a, e, i) ==
    IF i = 1 THEN (IF a[1] = <<"b","u","i","l","d">> THEN 0 ELSE -1)
    ELSE IF IsValue(a, e, i) THEN 1 + e[i - 1]
    ELSE IF e[i] # 0 THEN 1 + e[i]
    ELSE IF i = 2 THEN 1
    ELSE -1

\* The field of entry e is set in configuration b.
FieldSet(b, e) ==
    CASE e.kind = "exact" -> b[e.field]
      [] e.kind = "free" -> Len(b[e.field]) > 0
      [] OTHER -> is_some(b[e.field])

\* The vector a of a command launched for configuration b has the declared
\* shape.
HasDeclaredShape(a, b) ==
    \A e \in {Entries(a, b)} :
    \A place \in {[i \in DOMAIN a |-> Place(a, e, i)]} :
        /\ place[1] = 0
        /\ \A i \in DOMAIN a : place[i] >= 0
        /\ \A i \in DOMAIN a : i > 1 => place[i - 1] <= place[i]
        /\ \A i \in DOMAIN a :
               (i > 1 /\ place[i - 1] = place[i]) =>
                   \/ place[i] = 1 + FreeRank
                   \/ IsValue(a, e, i)
        /\ \A k \in DOMAIN DeclaredOrder :
               FieldSet(b, DeclaredOrder[k]) <=> (\E i \in DOMAIN a : place[i] = 1 + k)
        /\ is_some(b.step) <=> (\E i \in DOMAIN a : place[i] = 1)
        /\ is_some(b.step) => a[2] = unwrap(b.step)
        /\ SelectSeq(AfterStep(a, b), LAMBDA t : IsFlagOf(t, DeclaredOrder[FreeRank])) = b.options

BuildStep == builds' = builds + 1

\* The vector a holds the token tok.
HasToken(a, tok) == \E i \in DOMAIN a : a[i] = tok

\* The vector a holds the flag directly followed by the value.
HasPair(a, flag, value) == \E i \in DOMAIN a : i < Len(a) /\ a[i] = flag /\ a[i + 1] = value

\* The token section 4.4 gives a ReleaseMode and an Optimize.
ReleaseToken(r) ==
    CASE r = "Auto" -> <<"-","-","r","e","l","e","a","s","e">> [] r = "Fast" -> <<"-","-","r","e","l","e","a","s","e","=","f","a","s","t">>
      [] r = "Safe" -> <<"-","-","r","e","l","e","a","s","e","=","s","a","f","e">> [] r = "Small" -> <<"-","-","r","e","l","e","a","s","e","=","s","m","a","l","l">>
OptimizeToken(o) ==
    CASE o = "Default" -> <<"-","D","o","p","t","i","m","i","z","e">> [] o = "Debug" -> <<"-","D","o","p","t","i","m","i","z","e","=","D","e","b","u","g">>
      [] o = "ReleaseSafe" -> <<"-","D","o","p","t","i","m","i","z","e","=","R","e","l","e","a","s","e","S","a","f","e">>
      [] o = "ReleaseFast" -> <<"-","D","o","p","t","i","m","i","z","e","=","R","e","l","e","a","s","e","F","a","s","t">>
      [] o = "ReleaseSmall" -> <<"-","D","o","p","t","i","m","i","z","e","=","R","e","l","e","a","s","e","S","m","a","l","l">>

ExpectedOptimize(profile, level) ==
    CASE level = <<"0">> -> "Debug"
      [] level \in {<<"1">>, <<"2">>, <<"3">>} -> "ReleaseSafe"
      [] level \in {<<"s">>, <<"z">>} -> "ReleaseSmall"
      [] OTHER -> IF profile = <<"d","e","b","u","g">> THEN "Debug" ELSE "Default"

\* Build::build reaches the defaulting of the optimization: the prefix is set
\* or OUT_DIR can be read.
ReachesOptimize == is_some(build.prefix) \/ is_some(env_var("OUT_DIR"))

\* C3: when Build::build finds release and optimize both unset and PROFILE and
\* OPT_LEVEL are there, optimize becomes Debug for "0", ReleaseSafe for
\* "1"/"2"/"3", ReleaseSmall for "s"/"z" and else the default of the profile
\* (Debug for "debug", Default otherwise); release becomes Auto exactly when
\* the profile is not "debug" and stays unset for "debug"; no value of the two
\* variables makes the call panic over them.
C3_OptimizeTable ==
    [][(/\ BuildStep
        /\ is_none(build.release) /\ is_none(build.optimize)
        /\ ReachesOptimize
        /\ is_some(env_var("PROFILE")) /\ is_some(env_var("OPT_LEVEL"))) =>
        \A profile \in {unwrap(env_var("PROFILE"))} :
        \A level \in {unwrap(env_var("OPT_LEVEL"))} :
            /\ build'.optimize = Some(ExpectedOptimize(profile, level))
            /\ build'.release = IF profile = <<"d","e","b","u","g">> THEN None ELSE Some("Auto")
            /\ (profile = <<"d","e","b","u","g">> /\ level = <<"0">>) =>
                   build'.optimize = Some("Debug") /\ is_none(build'.release)
            /\ (profile = <<"r","e","l","e","a","s","e">> /\ level = <<"2">>) =>
                   build'.optimize = Some("ReleaseSafe") /\ build'.release = Some("Auto")
            /\ is_some(panic') => unwrap(panic').detail \notin {"PROFILE", "OPT_LEVEL"}
    ]_vars

\* C3 witness: Build::build returned for a configuration no setter was called
\* on, with a profile and an opt-level it does not know.
C3_Witness ==
    /\ status = "built"
    /\ calls = 0
    /\ environ["PROFILE"] = Some(<<"c","u","s","t","o","m">>)
    /\ environ["OPT_LEVEL"] = Some(<<"f","a","s","t">>)
    /\ build.optimize = Some("Default")
    /\ build.release = Some("Auto")

\* The vector a holds a --release token, and a -Doptimize token.
HasReleaseToken(a) ==
    \E i \in DOMAIN a : a[i] = <<"-","-","r","e","l","e","a","s","e">> \/ starts_with(a[i], <<"-","-","r","e","l","e","a","s","e","=">>)
HasOptimizeToken(a) ==
    \E i \in DOMAIN a : a[i] = <<"-","D","o","p","t","i","m","i","z","e">> \/ starts_with(a[i], <<"-","D","o","p","t","i","m","i","z","e","=">>)

\* C4 as claimed: a call of Build::build that finds release and optimize both
\* unset never leaves both of them set.
C4_AtMostOneAxis ==
    [][(BuildStep /\ is_none(build.release) /\ is_none(build.optimize)) =>
        ~(is_some(build'.release) /\ is_some(build'.optimize))
    ]_vars

\* C4 as amended: a call of Build::build that finds release and optimize both
\* unset and defaults them always sets optimize, and sets release (to Auto) as
\* well exactly when PROFILE is not "debug"; the vector of the launched
\* command then carries a -Doptimize token, and a --release token exactly
\* when PROFILE is not "debug".
C4_BothAxesUnlessDebug ==
    [][(/\ BuildStep
        /\ is_none(build.release) /\ is_none(build.optimize)
        /\ ReachesOptimize
        /\ is_some(env_var("PROFILE")) /\ is_some(env_var("OPT_LEVEL"))) =>
        /\ is_some(build'.optimize)
        /\ is_some(build'.release) <=> unwrap(env_var("PROFILE")) # <<"d","e","b","u","g">>
        /\ is_some(build'.release) => build'.release = Some("Auto")
        /\ is_some(cmd') =>
               /\ HasOptimizeToken(unwrap(cmd').args)
               /\ HasReleaseToken(unwrap(cmd').args) <=> unwrap(env_var("PROFILE")) # <<"d","e","b","u","g">>
    ]_vars

\* C4 witness: Build::build returned for a configuration no setter was called
\* on, both axes are set and the vector carries both tokens.
C4_Witness ==
    /\ status = "built"
    /\ calls = 0
    /\ is_some(build.release) /\ is_some(build.optimize)
    /\ HasToken(unwrap(cmd).args, <<"-","-","r","e","l","e","a","s","e">>)
    /\ HasToken(unwrap(cmd).args, <<"-","D","o","p","t","i","m","i","z","e","=","R","e","l","e","a","s","e","S","a","f","e">>)

\* C5 as claimed: no variable is read from the live environment more than
\* once in the lifetime of a Build.
C5_ReadAtMostOnce == \A v \in EnvNames : env_reads[v] <= 1

\* C5 as amended: only ZIG goes through the cache. It is read from the live
\* environment at most once; a later Build::build call finds it in env_cache,
\* does not read it again and launches the stored executable, whatever the
\* environment holds by then. The required variables never enter env_cache:
\* each lookup reads the live environment (OUT_DIR at most twice in the
\* lifetime of a Build, the others at most once).
C5_OnlyZigCached ==
    /\ [](/\ DOMAIN build.env_cache \subseteq {"ZIG"}
          /\ env_reads["ZIG"] <= 1
          /\ env_reads["OUT_DIR"] <= 2
          /\ \A v \in EnvNames \ {"ZIG", "OUT_DIR"} : env_reads[v] <= 1
          /\ (env_reads["ZIG"] = 1) <=> ("ZIG" \in DOMAIN build.env_cache))
    /\ [][(BuildStep /\ "ZIG" \in DOMAIN build.env_cache) =>
            /\ build'.env_cache = build.env_cache
            /\ env_reads'["ZIG"] = env_reads["ZIG"]
            /\ is_some(cmd') =>
                   unwrap(cmd').program = unwrap_or(build.env_cache["ZIG"], <<"z","i","g">>)
       ]_vars
    /\ [][(BuildStep /\ "ZIG" \notin DOMAIN build.env_cache /\ is_some(cmd')) =>
            /\ build'.env_cache["ZIG"] = environ["ZIG"]
            /\ unwrap(cmd').program = unwrap_or(environ["ZIG"], <<"z","i","g">>)
       ]_vars

\* C5 witness: a second Build::build call returned after the script changed
\* ZIG, which was read once: the environment and the cache differ and the
\* stored executable was launched.
C5_Witness ==
    /\ status = "built"
    /\ builds = 2
    /\ env_writes = 1
    /\ env_reads["ZIG"] = 1
    /\ environ["ZIG"] # build.env_cache["ZIG"]
    /\ unwrap(cmd).program = unwrap_or(build.env_cache["ZIG"], <<"z","i","g">>)

\* This step is a call of Build::option or Build::options that panicked.
OptionRejected ==
    /\ status' = "panicked"
    /\ calls' = calls + 1
    /\ unwrap(panic').site \in {"option", "options"}

\* The option has the "-D" prefix and collides with no first-class field.
Acceptable(o) ==
    /\ starts_with(to_string_lossy(o), <<"-","D">>)
    /\ \A p \in {<<"-","D","t","a","r","g","e","t">>, <<"-","D","c","p","u">>, <<"-","D","d","y","n","a","m","i","c","-","l","i","n","k","e","r">>, <<"-","D","o","p","t","i","m","i","z","e">>} :
           ~starts_with(to_string_lossy(o), p)

\* s is t with elements added at the end.
IsPrefix(t, s) == Len(t) <= Len(s) /\ \A i \in DOMAIN t : s[i] = t[i]

\* C6 as claimed: a rejected Build::option or Build::options call panics
\* before any launch and leaves every field of the configuration, the options
\* included, as it was.
C6_RejectedUnmodified ==
    [][OptionRejected => (build' = build /\ cmd' = cmd /\ launches' = launches)]_vars

\* C6 as amended: no option without the "-D" prefix or colliding with target,
\* cpu, dynamic-linker or optimize ever enters the options; a rejected call
\* panics at the call, with nothing launched. A rejected Build::option leaves
\* every field as it was; a rejected Build::options leaves every field but
\* options as it was, and options with the accepted elements that came before
\* the rejected one added at the end.
C6_RejectedKeepsPrefix ==
    /\ [](\A i \in DOMAIN build.options : Acceptable(build.options[i]))
    /\ [][OptionRejected =>
            /\ cmd' = cmd /\ launches' = launches /\ builds' = builds /\ ret' = ret
            /\ build' = [build EXCEPT !.options = build'.options]
            /\ IsPrefix(build.options, build'.options)
            /\ unwrap(panic').site = "option" => build' = build
         ]_vars
    /\ [][\A o \in BadOptions : Call_option(o) => OptionRejected]_vars
    /\ [][\A os \in OptionLists :
            (Call_options(os) /\ \E i \in DOMAIN os : ~Acceptable(os[i])) => OptionRejected]_vars

\* C6 witness: Build::options panicked on its second element after it had
\* added the first.
C6_Witness ==
    /\ status = "panicked"
    /\ unwrap(panic).site = "options"
    /\ build.options = <<<<"-","D","x">>>>
    /\ launches = 0

\* The messages of the three fatal classifications.
NotInstalledMsg == "failed to execute command; is zig not installed?"
LaunchErrorMsg == "failed to execute command"
ExitStatusMsg == "command did not execute successfully"

\* What a call of Build::build that launched the command makes of the result
\* of the launch, by the kind of that result: exactly one of the four cases.
FourWay ==
    (BuildStep /\ is_some(cmd')) =>
        /\ launches' = launches + 1
        /\ \A o \in {unwrap(cmd').status} :
           /\ (~o.ok /\ o.kind = "NotFound") =>
                  /\ status' = "panicked" /\ ret' = None
                  /\ unwrap(panic').msg = NotInstalledMsg
           /\ (~o.ok /\ o.kind # "NotFound") =>
                  /\ status' = "panicked" /\ ret' = None
                  /\ unwrap(panic').msg = LaunchErrorMsg
                  /\ unwrap(panic').detail = o.kind
           /\ (o.ok /\ o.code # 0) =>
                  /\ status' = "panicked" /\ ret' = None
                  /\ unwrap(panic').msg = ExitStatusMsg
                  /\ unwrap(panic').detail = "exit status"
           /\ (o.ok /\ o.code = 0) =>
                  /\ status' = "built" /\ panic' = None
                  /\ ret' = build'.prefix /\ is_some(ret')

\* Nothing is tried again: a call of Build::build launches at most one
\* command, and after a failure no method runs.
NoRetry ==
    /\ BuildStep => launches' \in {launches, launches + 1}
    /\ (BuildStep /\ is_none(cmd')) => (launches' = launches /\ status' = "panicked" /\ ret' = None)
    /\ status = "panicked" => UNCHANGED vars

\* C7 as claimed: the four-way classification, no retry, no path on failure,
\* and the "is zig not installed" message when, and only when, the zig
\* executable cannot be found.
C7_NotInstalledIffToolMissing ==
    [][/\ FourWay
       /\ NoRetry
       /\ (BuildStep /\ is_some(cmd')) =>
              (unwrap(panic' \o <<[msg |-> ""]>>).msg = NotInstalledMsg
                   <=> ~unwrap(cmd').zig_found)
    ]_vars

\* C7 as amended: the four-way classification by the kind of the result, no
\* retry, no path on failure. The "is zig not installed" message is given
\* when, and only when, the launch fails with an error of kind NotFound; that
\* is the case whenever the zig executable cannot be found (and also when the
\* launch fails with NotFound for another reason, e.g. a missing working
\* directory), and never for a tool that ran and exited.
C7_Classification ==
    [][/\ FourWay
       /\ NoRetry
       /\ (BuildStep /\ is_some(cmd')) =>
              /\ unwrap(panic' \o <<[msg |-> ""]>>).msg = NotInstalledMsg
                     <=> (~unwrap(cmd').status.ok /\ unwrap(cmd').status.kind = "NotFound")
              /\ ~unwrap(cmd').zig_found =>
                     unwrap(panic' \o <<[msg |-> ""]>>).msg = NotInstalledMsg
              /\ unwrap(cmd').status.ok =>
                     unwrap(panic' \o <<[msg |-> ""]>>).msg # NotInstalledMsg
    ]_vars

\* C7 witness: Build::build launched a zig that could not be found and
\* panicked with the "is zig not installed" message, returning no path.
C7_Witness ==
    /\ Launched
    /\ status = "panicked"
    /\ ~unwrap(cmd).zig_found
    /\ unwrap(panic).msg = NotInstalledMsg
    /\ ret = None
    /\ launches = 1

\* The cpu string before a call, as text ("" when unset).
CpuText(b) == unwrap_or(b.cpu, <<>>)

\* C8 as claimed: each add_cpu(f) adds the token "+f" and each remove_cpu(f)
\* the token "-f" at the end of the cpu string, whether the string was unset
\* or set, and leaves what was there as it was.
C8_SignedTokens ==
    [][\A f \in FeatureArgs :
          /\ Call_add_cpu(f) => build'.cpu = Some(CpuText(build) \o <<"+">> \o f)
          /\ Call_remove_cpu(f) => build'.cpu = Some(CpuText(build) \o <<"-">> \o f)
    ]_vars

\* The variable v, which has a value in this environment.
EnvText(v) == unwrap(env_var(v))

\* The four variables of the triplet can be read.
TripletThere ==
    \A v \in {"CARGO_CFG_TARGET_ARCH", "CARGO_CFG_TARGET_OS", "CARGO_CFG_TARGET_ENV",
              "CARGO_CFG_TARGET_ABI"} : is_some(env_var(v))

\* The triplet the claim gives the four variables.
ExpectedTriplet ==
    LET arch_os == EnvText("CARGO_CFG_TARGET_ARCH") \o <<"-">> \o EnvText("CARGO_CFG_TARGET_OS")
        tail == EnvText("CARGO_CFG_TARGET_ENV") \o EnvText("CARGO_CFG_TARGET_ABI")
    IN  IF tail = <<>> THEN arch_os ELSE arch_os \o <<"-">> \o tail

\* This step is a call of Build::build whose resolution went through.
Resolved == BuildStep /\ is_some(cmd')

\* The vector a has a token that starts with p.
HasTokenWith(a, p) == \E i \in DOMAIN a : starts_with(a[i], p)

\* The cases both sides agree on: with target and cpu unset both are derived
\* from the environment, with only target unset target is derived and cpu is
\* left as set, and a field the caller set is never changed.
PlatformAgreed ==
    Resolved =>
        /\ (is_none(build.target) /\ is_none(build.cpu)) =>
               /\ build'.target = Some(ExpectedTriplet)
               /\ is_some(build'.cpu)
               /\ starts_with(unwrap(build'.cpu), EnvText("CARGO_CFG_TARGET_ARCH"))
               /\ env_reads'["CARGO_CFG_TARGET_FEATURE"] = env_reads["CARGO_CFG_TARGET_FEATURE"] + 1
        /\ (is_none(build.target) /\ is_some(build.cpu)) =>
               /\ build'.target = Some(ExpectedTriplet)
               /\ build'.cpu = build.cpu
        /\ is_some(build.target) => build'.target = build.target
        /\ is_some(build.cpu) => build'.cpu = build.cpu

\* C9 as claimed: the agreed cases, and a configuration whose target is set
\* and whose cpu is unset has its cpu inferred by Build::build.
C9_CpuInferredWhenUnset ==
    [][/\ PlatformAgreed
       /\ (Resolved /\ is_some(build.target) /\ is_none(build.cpu)) => is_some(build'.cpu)
    ]_vars

\* C9 as amended: the agreed cases, and a configuration whose target is set
\* and whose cpu is unset keeps its cpu unset: Build::build reads none of the
\* platform variables for it (it does not panic when they are missing) and the
\* vector carries the caller's target and no -Dcpu token.
C9_PlatformCases ==
    [][/\ PlatformAgreed
       /\ (BuildStep /\ is_some(build.target) /\ is_none(build.cpu)) =>
              /\ is_none(build'.cpu)
              /\ build'.target = build.target
              /\ \A v \in {"CARGO_CFG_TARGET_ARCH", "CARGO_CFG_TARGET_OS",
                           "CARGO_CFG_TARGET_ENV", "CARGO_CFG_TARGET_ABI",
                           "CARGO_CFG_TARGET_FEATURE"} : env_reads'[v] = env_reads[v]
              /\ is_some(cmd') =>
                     /\ ~HasTokenWith(unwrap(cmd').args, <<"-","D","c","p","u">>)
                     /\ HasToken(unwrap(cmd').args,
                                 <<"-","D","t","a","r","g","e","t","=">> \o to_string_lossy(unwrap(build.target)))
    ]_vars

\* C9 witness: Build::build returned for a configuration whose target the
\* caller had set and whose cpu is still unset, with CARGO_CFG_TARGET_FEATURE
\* there to be read.
C9_Witness ==
    /\ status = "built"
    /\ calls = 1
    /\ build.target = Some(<<"a","a","r","c","h","6","4","-","l","i","n","u","x","-","g","n","u">>)
    /\ is_none(build.cpu)
    /\ is_some(env_var("CARGO_CFG_TARGET_FEATURE"))
    /\ ~HasTokenWith(unwrap(cmd).args, <<"-","D","c","p","u">>)

\* C10: the target Build::build derives is "arch-os" when env followed by abi
\* is empty and "arch-os-" followed by env and abi as one token otherwise:
\* "x86_64-linux-gnu" for (x86_64, linux, gnu, ""), "x86_64-linux" for
\* (x86_64, linux, "", ""); it never ends in "-", and it is the value of the
\* -Dtarget token.
C10_TripletFormat ==
    [][(Resolved /\ is_none(build.target)) =>
         \A t \in {unwrap(build'.target)} :
            /\ TripletThere
            /\ t = ExpectedTriplet
            /\ t[Len(t)] # "-"
            /\ HasToken(unwrap(cmd').args, <<"-","D","t","a","r","g","e","t","=">> \o t)
            /\ (/\ EnvText("CARGO_CFG_TARGET_ARCH") = <<"x","8","6","_","6","4">>
                /\ EnvText("CARGO_CFG_TARGET_OS") = <<"l","i","n","u","x">>
                /\ EnvText("CARGO_CFG_TARGET_ABI") = <<>>) =>
                   /\ EnvText("CARGO_CFG_TARGET_ENV") = <<"g","n","u">> => t = <<"x","8","6","_","6","4","-","l","i","n","u","x","-","g","n","u">>
                   /\ EnvText("CARGO_CFG_TARGET_ENV") = <<>> => t = <<"x","8","6","_","6","4","-","l","i","n","u","x">>
    ]_vars

\* C10 witness: Build::build returned with the target derived from
\* (x86_64, linux, "", ""), which is "x86_64-linux".
C10_Witness ==
    /\ status = "built"
    /\ calls = 0
    /\ environ["CARGO_CFG_TARGET_ENV"] = Some(<<>>)
    /\ environ["CARGO_CFG_TARGET_ABI"] = Some(<<>>)
    /\ build.target = Some(<<"x","8","6","_","6","4","-","l","i","n","u","x">>)

\* The name with every "-" and "." replaced by "_".
Normalized(name) == [i \in DOMAIN name |-> IF name[i] \in {"-", "."} THEN "_" ELSE name[i]]

\* The rename table of the x86 features, as pairs (name, renamed).
RenameTable ==
    { <<<<"a","v","x","5","1","2","v","b","m","i","1">>, <<"a","v","x","5","1","2","v","b","m","i">>>>, <<<<"b","m","i","1">>, <<"b","m","i">>>>, <<<<"c","m","p","x","c","h","g","1","6","b">>, <<"c","x","1","6">>>>,
      <<<<"r","d","r","a","n","d">>, <<"r","d","r","n","d">>>>, <<<<"l","a","h","f","s","a","h","f">>, <<"s","a","h","f">>>>, <<<<"p","c","l","m","u","l","q","d","q">>, <<"p","c","l","m","u","l">>>> }

\* The architecture starts with "x86".
IsX86(arch) == Len(arch) >= 3 /\ SubSeq(arch, 1, 3) = <<"x","8","6">>

\* The translation the claim gives a feature name on an architecture.
ExpectedTranslation(arch, feature) ==
    IF IsX86(arch) /\ \E e \in RenameTable : e[1] = Normalized(feature)
    THEN (CHOOSE e \in RenameTable : e[1] = Normalized(feature))[2]
    ELSE Normalized(feature)

\* C11: translate_arch_feature(arch, feature) is the tabled value when arch
\* starts with "x86" and the name with "-" and "." replaced by "_" is in the
\* rename table, and that normalized name otherwise; on an architecture that
\* does not start with "x86" it is the normalized name, the same for all such
\* architectures.
C11_Translation ==
    is_some(translated) =>
        \A t \in {unwrap(translated)} :
           /\ t.result = ExpectedTranslation(t.arch, t.feature)
           /\ ~IsX86(t.arch) =>
                  /\ t.result = Normalized(t.feature)
                  /\ \A other \in ArchArgs :
                         ~IsX86(other) => translate_arch_feature(other, t.feature) = t.result
           /\ (IsX86(t.arch) /\ Normalized(t.feature) \notin TableNames) =>
                  t.result = Normalized(t.feature)

\* C11 witness: bmi1 was translated on an architecture that does not start
\* with "x86" and came out unrenamed.
C11_Witness ==
    /\ is_some(translated)
    /\ unwrap(translated).arch = <<"a","a","r","c","h","6","4">>
    /\ unwrap(translated).feature = <<"b","m","i","1">>
    /\ unwrap(translated).result = <<"b","m","i","1">>

\* The places of the separator in the text, and the pieces they cut it into:
\* one more piece than there are separators, empty pieces included.
SepPlaces(text, sep) == {i \in DOMAIN text : text[i] = sep}
SepPlace(text, sep, j) ==
    IF j = 0 THEN 0
    ELSE IF j > Cardinality(SepPlaces(text, sep)) THEN Len(text) + 1
    ELSE CHOOSE p \in SepPlaces(text, sep) :
             Cardinality({q \in SepPlaces(text, sep) : q < p}) = j - 1
Pieces(text, sep) ==
    [j \in 1..(Cardinality(SepPlaces(text, sep)) + 1) |->
        SubSeq(text, SepPlace(text, sep, j - 1) + 1, SepPlace(text, sep, j) - 1)]

\* C14: when Build::build finds target and cpu both unset, the cpu it derives
\* has, between its "+", one token more than CARGO_CFG_TARGET_FEATURE has
\* entries between its "," (an empty variable has one empty entry): the first
\* is the translated architecture, the others the translated entries, each at
\* the place of its entry, none dropped or merged; the string is the value of
\* the -Dcpu token.
C14_DerivedCpu ==
    [][(Resolved /\ is_none(build.target) /\ is_none(build.cpu)) =>
         \A arch \in {EnvText("CARGO_CFG_TARGET_ARCH")} :
         \A entries \in {Pieces(EnvText("CARGO_CFG_TARGET_FEATURE"), ",")} :
         \A tokens \in {Pieces(unwrap(build'.cpu), "+")} :
            /\ Len(tokens) = 1 + Len(entries)
            /\ tokens[1] = ExpectedTranslation(arch, arch)
            /\ \A i \in DOMAIN entries : tokens[i + 1] = ExpectedTranslation(arch, entries[i])
            /\ HasToken(unwrap(cmd').args, <<"-","D","c","p","u","=">> \o unwrap(build'.cpu))
    ]_vars

\* C14 witness: Build::build returned with the cpu derived on x86_64 from
\* "bmi1,v8.1-a,bmi1": four tokens, bmi twice.
C14_Witness ==
    /\ status = "built"
    /\ calls = 0
    /\ environ["CARGO_CFG_TARGET_FEATURE"] = Some(<<"b","m","i","1",",","v","8",".","1","-","a",",","b","m","i","1">>)
    /\ build.cpu = Some(<<"x","8","6","_","6","4","+","b","m","i","+","v","8","_","1","_","a","+","b","m","i">>)

\* The fields the resolution defaults, and the required variables.
ResolvedFields == {"prefix", "release", "optimize", "target", "cpu", "cache_dir"}
RequiredNames == EnvNames \ {"ZIG"}

\* The prefix, an optimization axis, the target and the cache directory of
\* the configuration are set.
FullySpecified(b) ==
    /\ is_some(b.prefix)
    /\ is_some(b.release) \/ is_some(b.optimize)
    /\ is_some(b.target)
    /\ is_some(b.cache_dir)

\* C12: a call of Build::build on a configuration whose prefix, optimization
\* axis, target and cache directory are set changes none of the fields the
\* resolution defaults, reads no required variable and gets to the launch
\* whatever the environment holds; a second call of Build::build finds such a
\* configuration, leaves it as the first call left it and launches the same
\* executable with the same vector, also after the environment was changed.
C12_Idempotent ==
    [][/\ (BuildStep /\ FullySpecified(build)) =>
              /\ \A f \in ResolvedFields : build'[f] = build[f]
              /\ \A v \in RequiredNames : env_reads'[v] = env_reads[v]
              /\ is_some(cmd')
       /\ (BuildStep /\ builds >= 1) =>
              /\ FullySpecified(build)
              /\ is_some(cmd) /\ is_some(cmd')
              /\ build' = build
              /\ unwrap(cmd').args = unwrap(cmd).args
              /\ unwrap(cmd').program = unwrap(cmd).program
              /\ unwrap(cmd').current_dir = unwrap(cmd).current_dir
    ]_vars

\* C12 witness: a second call of Build::build returned after OUT_DIR, which
\* the first call had read, was removed from the environment.
C12_Witness ==
    /\ status = "built"
    /\ builds = 2
    /\ env_writes = 1
    /\ environ["OUT_DIR"] = None
    /\ env_reads["OUT_DIR"] = 2

\* The message of the missing-environment failure.
MissingEnvMsg == "environment variable not defined"

\* The required variables the resolution of the configuration needs, in the
\* order it asks for them: OUT_DIR for an unset prefix, PROFILE and OPT_LEVEL
\* when release and optimize are both unset, the four variables of the
\* triplet for an unset target, CARGO_CFG_TARGET_FEATURE for the cpu derived
\* along with the target, OUT_DIR for an unset cache directory.
NeededVars(b) ==
    (IF is_none(b.prefix) THEN <<"OUT_DIR">> ELSE <<>>)
    \o (IF is_none(b.release) /\ is_none(b.optimize) THEN <<"PROFILE", "OPT_LEVEL">> ELSE <<>>)
    \o (IF is_none(b.target)
        THEN <<"CARGO_CFG_TARGET_ARCH", "CARGO_CFG_TARGET_OS", "CARGO_CFG_TARGET_ENV",
               "CARGO_CFG_TARGET_ABI">>
        ELSE <<>>)
    \o (IF is_none(b.target) /\ is_none(b.cpu) THEN <<"CARGO_CFG_TARGET_FEATURE">> ELSE <<>>)
    \o (IF is_none(b.cache_dir) THEN <<"OUT_DIR">> ELSE <<>>)

\* The places of the needed variables that cannot be read (absent, or not
\* unicode), and the places of those that are absent.
Unreadable(needed) == {i \in DOMAIN needed : is_none(env_var(needed[i]))}
AbsentPlaces(needed) == {i \in DOMAIN needed : environ[needed[i]] = None}

\* This step panicked with the missing-environment failure.
MissingEnvPanic == is_some(panic') /\ unwrap(panic').msg = MissingEnvMsg

\* C13: when a required variable the resolution needs for an unset field is
\* absent, Build::build panics with the missing-environment failure naming
\* the first needed variable it cannot read (the absent one when it is the
\* only one), launches nothing and returns no path; no call both reports a
\* missing variable and launches the command.
C13_MissingEnvBeforeLaunch ==
    [][BuildStep =>
         \A needed \in {NeededVars(build)} :
            /\ AbsentPlaces(needed) # {} =>
                   /\ status' = "panicked"
                   /\ MissingEnvPanic
                   /\ \E i \in Unreadable(needed) :
                          /\ \A j \in Unreadable(needed) : i <= j
                          /\ unwrap(panic').detail = needed[i]
                   /\ (\E v \in EnvNames : \A i \in Unreadable(needed) : needed[i] = v) =>
                          environ[unwrap(panic').detail] = None
            /\ MissingEnvPanic =>
                   /\ is_none(cmd') /\ launches' = launches /\ ret' = None
                   /\ status' = "panicked"
                   /\ \E i \in Unreadable(needed) : unwrap(panic').detail = needed[i]
            /\ is_some(cmd') => Unreadable(needed) = {}
    ]_vars

\* C13 witness: Build::build panicked over the absent OUT_DIR it needed for
\* the cache directory alone (the caller had set the prefix), after reading
\* the other variables and before any launch.
C13_Witness ==
    /\ status = "panicked"
    /\ builds = 1
    /\ is_some(build.prefix)
    /\ environ["OUT_DIR"] = None
    /\ unwrap(panic).msg = MissingEnvMsg
    /\ unwrap(panic).detail = "OUT_DIR"
    /\ env_reads["CARGO_CFG_TARGET_FEATURE"] = 1
    /\ launches = 0
    /\ cmd = None

\* The prefixes of the project options that have a field of their own, and
\* the token Build::build gives for the field (None when the field is unset).
FirstClassPrefixes == {<<"-","D","t","a","r","g","e","t">>, <<"-","D","c","p","u">>, <<"-","D","d","y","n","a","m","i","c","-","l","i","n","k","e","r">>, <<"-","D","o","p","t","i","m","i","z","e">>}
FieldToken(b, p) ==
    CASE p = <<"-","D","t","a","r","g","e","t">> ->
             IF is_some(b.target) THEN Some(<<"-","D","t","a","r","g","e","t","=">> \o to_string_lossy(unwrap(b.target)))
             ELSE None
      [] p = <<"-","D","c","p","u">> ->
             IF is_some(b.cpu) THEN Some(<<"-","D","c","p","u","=">> \o to_string_lossy(unwrap(b.cpu))) ELSE None
      [] p = <<"-","D","d","y","n","a","m","i","c","-","l","i","n","k","e","r">> ->
             IF is_some(b.dynamic_linker)
             THEN Some(<<"-","D","d","y","n","a","m","i","c","-","l","i","n","k","e","r","=">> \o to_string_lossy(unwrap(b.dynamic_linker)))
             ELSE None
      [] p = <<"-","D","o","p","t","i","m","i","z","e">> ->
             IF is_some(b.optimize) THEN Some(OptimizeToken(unwrap(b.optimize))) ELSE None

\* Every free-form option of the configuration starts with "-D" and with none
\* of the four prefixes.
OptionsAcceptable == \A i \in DOMAIN build.options : Acceptable(build.options[i])

\* Among the tokens a, at most one starts with each of the four prefixes, and
\* that one is the token of the field.
OneEachFromField(a, b) ==
    \A p \in FirstClassPrefixes :
        /\ \A i \in DOMAIN a :
               starts_with(a[i], p) =>
                   /\ FieldToken(b, p) = Some(a[i])
                   /\ \A j \in DOMAIN a : starts_with(a[j], p) => j = i
        /\ is_some(FieldToken(b, p)) => HasToken(a, unwrap(FieldToken(b, p)))

\* C15 as claimed: every free-form option starts with "-D" and with none of
\* "-Dtarget", "-Dcpu", "-Ddynamic-linker", "-Doptimize", and the whole vector
\* of a launched command has at most one token starting with each of the
\* four, the one of the field.
C15_OneEachInVector ==
    /\ OptionsAcceptable
    /\ Launched => OneEachFromField(unwrap(cmd).args, build)

\* C15 as amended: every free-form option starts with "-D" and with none of
\* the four prefixes (a prefix match: "-Dcpu_count=4" is rejected), so among
\* the tokens that follow "build" and the step at most one starts with each
\* of the four, the one of the field, and none of them is a free-form option
\* (which are all among these tokens).
\* The step is given verbatim as the second token and is not looked at: it
\* may start with one of the four.
C15_OneEachAfterStep ==
    /\ OptionsAcceptable
    /\ Launched =>
           /\ OneEachFromField(AfterStep(unwrap(cmd).args, build), build)
           /\ is_some(build.step) => unwrap(cmd).args[2] = unwrap(build.step)
           /\ \A i \in DOMAIN build.options :
                  HasToken(AfterStep(unwrap(cmd).args, build), build.options[i])

\* C15 witness: a command was launched with the step "-Dcpu=native" and the
\* -Dcpu token of the cpu field.
C15_Witness ==
    /\ Launched
    /\ build.step = Some(<<"-","D","c","p","u","=","n","a","t","i","v","e">>)
    /\ is_some(build.cpu)
    /\ HasToken(unwrap(cmd).args, unwrap(FieldToken(build, <<"-","D","c","p","u">>)))
====
